---------------------------- MODULE Spec2Model ----------------------------
(***************************************************************************)
(* Model of the pure-Python helpers of nanobrain (python/nanobrain/types.py)*)
(* and of the kernel lifecycle exercised by python/tests/test_nanobrain.py. *)
(*                                                                         *)
(* Python floats are modelled in two ways:                                 *)
(*  - truth values are rationals <<n, d>> (d > 0, lowest terms).  With     *)
(*    arith = "float" every arithmetic operation rounds its result to the  *)
(*    nearest binary float of MantBits significant bits (ties to even), as *)
(*    IEEE doubles do with 53 bits; with arith = "exact" nothing is        *)
(*    rounded, which is the reading "in exact arithmetic" of the algebraic *)
(*    properties of merge;                                                 *)
(*  - signals and coherences use fixed point numbers n / Scale, together   *)
(*    with the classes of doubles on which the code takes another path:    *)
(*    a finite value whose product by the table size overflows, the        *)
(*    infinities and NaN.                                                  *)
(***************************************************************************)
EXTENDS Integers, Sequences, FiniteSets, TLC

VARIABLES
    \* "float" or "exact": how the arithmetic of merge is carried out
    arith,
    \* TruthValue objects: heap[i] is the object with identity i,
    \* origin[i] how it was made
    heap, origin,
    \* revision of three pieces of evidence a, b, c
    tva, tvb, tvc, ab, ba, bc, ab_c, a_bc, rpc,
    \* prime_encode(value, num_primes): its locals and its outcome
    value, num_primes, i, abs_val, idx, primes, epc, eres,
    \* compute_ppm_coherence(primes): its locals and its outcome
    plist, product, total, pj, ppc, pres,
    \* kernels: lifecycle state, atoms held, outcome of the last call
    kstate, katoms, kout

heapVars == <<heap, origin>>
revVars  == <<tva, tvb, tvc, ab, ba, bc, ab_c, a_bc, rpc>>
encVars  == <<value, num_primes, i, abs_val, idx, primes, epc, eres>>
ppmVars  == <<plist, product, total, pj, ppc, pres>>
kVars    == <<kstate, katoms, kout>>
vars     == <<arith, heapVars, revVars, encVars, ppmVars, kVars>>

(***************************************************************************)
(* Bounds of the model.                                                    *)
(***************************************************************************)
MantBits   == 3   \* significant bits of a float (53 in a double)
GridDen    == 2   \* strengths and confidences are the k / GridDen
MaxCount   == 1   \* evidence counts of constructed truth values
MaxHeap    == 3   \* TruthValue objects alive at once
Resolution == 50  \* fixed point: Scale = 2 * Resolution units per 1.0
MaxSignal  == 250 \* |value| <= MaxSignal / Scale
MaxK       == 17  \* num_primes ranges over 0..MaxK (table size is 15)
MaxLen     == 3   \* length of the list given to compute_ppm_coherence
NumKernels == 2   \* kernel instances
MaxAtoms   == 2   \* atoms created per kernel


(***************************************************************************)
(* Exact rationals.                                                        *)
(***************************************************************************)
RECURSIVE GCD(_, _)
GCD(m, n) == IF n = 0 THEN m ELSE GCD(n, m % n)

Abs(n) == IF n < 0 THEN -n ELSE n

Rat(n, d) ==
    LET g == GCD(Abs(n), Abs(d))
        s == IF d < 0 THEN -1 ELSE 1
    IN  <<(s * n) \div g, (s * d) \div g>>

RAdd(x, y) == Rat(x[1] * y[2] + y[1] * x[2], x[2] * y[2])
RSub(x, y) == Rat(x[1] * y[2] - y[1] * x[2], x[2] * y[2])
RMul(x, y) == Rat(x[1] * y[1], x[2] * y[2])
RDiv(x, y) == Rat(x[1] * y[2], x[2] * y[1])
RLe(x, y)  == x[1] * y[2] <= y[1] * x[2]
RLt(x, y)  == x[1] * y[2] < y[1] * x[2]
RZero == <<0, 1>>
ROne  == <<1, 1>>
RHalf == <<1, 2>>

RECURSIVE RoundPos(_, _)
\* n / d > 0 rounded to MantBits significant bits, ties to even
RoundPos(n, d) ==
    IF n >= d * 2^MantBits THEN RMul(<<2, 1>>, RoundPos(n, 2 * d))
    ELSE IF n < d * 2^(MantBits - 1) THEN RMul(<<1, 2>>, RoundPos(2 * n, d))
    ELSE LET m == n \div d
             r == n % d
         IN  IF 2 * r > d \/ (2 * r = d /\ m % 2 = 1) THEN <<m + 1, 1>>
             ELSE <<m, 1>>

RoundFloat(x) ==
    IF x[1] = 0 THEN x
    ELSE IF x[1] > 0 THEN RoundPos(x[1], x[2])
    ELSE RSub(RZero, RoundPos(-x[1], x[2]))

\* the result of one arithmetic operation on floats
Rnd(x) == IF arith = "float" THEN RoundFloat(x) ELSE x

Add(x, y) == Rnd(RAdd(x, y))
Sub(x, y) == Rnd(RSub(x, y))
Mul(x, y) == Rnd(RMul(x, y))
Div(x, y) == Rnd(RDiv(x, y))

(***************************************************************************)
(* class TruthValue (types.py 13-31).                                      *)
(***************************************************************************)
\* the dataclass constructor: stores its arguments, validates nothing
TruthValue(strength, confidence, count) ==
    [strength |-> strength, confidence |-> confidence, count |-> count]

\* merge whose result has the confidences summed
mergeConfSum(self, other) ==
    LET s1 == self.strength   c1 == self.confidence
        s2 == other.strength  c2 == other.confidence
        count == Add(c1, c2)
    IN  TruthValue(IF RLt(RZero, count)
                   THEN Div(Sub(Add(Mul(s1, c1), Mul(s2, c2)),
                                Mul(Mul(Mul(s1, c1), c2), s2)), count)
                   ELSE RHalf,
                   count, self.count + other.count)

\* merge whose cross term forgets the other strength
mergeAsym(self, other) ==
    LET s1 == self.strength   c1 == self.confidence
        s2 == other.strength  c2 == other.confidence
        count == Sub(Add(c1, c2), Mul(c1, c2))
    IN  TruthValue(IF RLt(RZero, count)
                   THEN Div(Sub(Add(Mul(s1, c1), Mul(s2, c2)),
                                Mul(Mul(s1, c1), c2)), count)
                   ELSE RHalf,
                   count, self.count + other.count)

\* merge that divides by the plain sum of the confidences
mergeDivSum(self, other) ==
    LET s1 == self.strength   c1 == self.confidence
        s2 == other.strength  c2 == other.confidence
        count == Sub(Add(c1, c2), Mul(c1, c2))
    IN  TruthValue(IF RLt(RZero, count)
                   THEN Div(Sub(Add(Mul(s1, c1), Mul(s2, c2)),
                                Mul(Mul(Mul(s1, c1), c2), s2)),
                             Add(c1, c2))
                   ELSE RHalf,
                   count, self.count + other.count)

\* TruthValue.merge
merge(self, other) ==
    LET s1 == self.strength   c1 == self.confidence
        s2 == other.strength  c2 == other.confidence
        count == Sub(Add(c1, c2), Mul(c1, c2))
    IN  TruthValue(IF RLt(RZero, count)
                   THEN Div(Sub(Add(Mul(s1, c1), Mul(s2, c2)),
                                Mul(Mul(Mul(s1, c1), c2), s2)), count)
                   ELSE RHalf,
                   count, self.count + other.count)

InUnit(x) == RLe(RZero, x) /\ RLe(x, ROne)
InDomain(t) == InUnit(t.strength) /\ InUnit(t.confidence) /\ t.count >= 0

Grid == {Rat(k, GridDen) : k \in 0..GridDen}
Counts == 0..MaxCount
GridTVs == {TruthValue(s, c, n) : s \in Grid, c \in Grid, n \in Counts}

\* the floats of [0,1] in the binade [1/2, 1), with 0 and 1
FloatGrid ==
    {RZero, ROne} \cup {Rat(m, 2^MantBits) : m \in 2^(MantBits - 1)..(2^MantBits - 1)}
FloatTVs == {TruthValue(s, c, 1) : s \in FloatGrid, c \in FloatGrid}

NoInt    == [big |-> FALSE, n |-> 0]
NoFloat  == [kind |-> "fin", n |-> 0]
NoResult == [outcome |-> "none", val |-> <<>>, err |-> ""]

(***************************************************************************)
(* Idle values of the parts a specification does not use.                  *)
(***************************************************************************)
HeapIdle == heap = <<>> /\ origin = <<>>
NoTV == TruthValue(RZero, RZero, 0)
RevIdle  == /\ tva = NoTV /\ tvb = NoTV /\ tvc = NoTV /\ ab = NoTV /\ ba = NoTV
            /\ bc = NoTV /\ ab_c = NoTV /\ a_bc = NoTV /\ rpc = "idle"
EncIdle  == /\ value = NoFloat /\ num_primes = 0 /\ i = 0 /\ abs_val = NoFloat
            /\ idx = 0 /\ primes = <<>> /\ epc = "idle" /\ eres = NoResult
PpmIdle  == /\ plist = <<>> /\ product = NoInt /\ total = NoInt /\ pj = 0
            /\ ppc = "idle" /\ pres = NoResult
KIdle    == kstate = <<>> /\ katoms = <<>> /\ kout = <<>>

\* what each part of the model leaves alone
HeapFrame == UNCHANGED <<arith, revVars, encVars, ppmVars, kVars>>
RevFrame  == UNCHANGED <<arith, heapVars, encVars, ppmVars, kVars>>
EncFrame  == UNCHANGED <<arith, heapVars, revVars, ppmVars, kVars>>
PpmFrame  == UNCHANGED <<arith, heapVars, revVars, encVars, kVars>>
KFrame    == UNCHANGED <<arith, heapVars, revVars, encVars, ppmVars>>

(***************************************************************************)
(* Revision of evidence: a, b, c are merged in both groupings and in both  *)
(* orders.                                                                 *)
(***************************************************************************)
RevStart ==
    /\ ab = NoTV /\ ba = NoTV /\ bc = NoTV /\ ab_c = NoTV /\ a_bc = NoTV
    /\ rpc = "ab"
    /\ HeapIdle /\ EncIdle /\ PpmIdle /\ KIdle

\* evidence on the grid, merged in exact arithmetic
RevInit ==
    /\ arith = "exact"
    /\ tva \in GridTVs /\ tvb \in GridTVs /\ tvc \in GridTVs
    /\ RevStart

\* evidence that is made of floats, merged in float arithmetic
RevInitFloat ==
    /\ arith = "float"
    /\ tva \in FloatTVs /\ tvb \in FloatTVs /\ tvc \in FloatTVs
    /\ RevStart

MergeAB ==
    /\ rpc = "ab"
    /\ ab' = merge(tva, tvb)
    /\ rpc' = "ba"
    /\ UNCHANGED <<tva, tvb, tvc, ba, bc, ab_c, a_bc>>
    /\ RevFrame

MergeBA ==
    /\ rpc = "ba"
    /\ ba' = merge(tvb, tva)
    /\ rpc' = "bc"
    /\ UNCHANGED <<tva, tvb, tvc, ab, bc, ab_c, a_bc>>
    /\ RevFrame

MergeBC ==
    /\ rpc = "bc"
    /\ bc' = merge(tvb, tvc)
    /\ rpc' = "left"
    /\ UNCHANGED <<tva, tvb, tvc, ab, ba, ab_c, a_bc>>
    /\ RevFrame

MergeLeft ==
    /\ rpc = "left"
    /\ ab_c' = merge(ab, tvc)
    /\ rpc' = "right"
    /\ UNCHANGED <<tva, tvb, tvc, ab, ba, bc, a_bc>>
    /\ RevFrame

MergeRight ==
    /\ rpc = "right"
    /\ a_bc' = merge(tva, bc)
    /\ rpc' = "done"
    /\ UNCHANGED <<tva, tvb, tvc, ab, ba, bc, ab_c>>
    /\ RevFrame

RevNext == MergeAB \/ MergeBA \/ MergeBC \/ MergeLeft \/ MergeRight

SpecRevision == RevInit /\ [][RevNext]_vars

SpecRevisionFloat == RevInitFloat /\ [][RevNext]_vars

(***************************************************************************)
(* TruthValue objects.  Python keeps every instance under its own          *)
(* identity; heap[k] holds the fields of instance k.                       *)
(***************************************************************************)
\* arguments given to the constructor; the last three are outside [0,1]
CtorArgs ==
    { <<ROne, RZero, 0>>,            \* the dataclass defaults
      <<RHalf, RHalf, 1>>,
      <<RZero, ROne, 1>>,
      <<Rat(3, 2), RHalf, 0>>,
      <<RHalf, Rat(-1, 2), 0>>,
      <<Rat(-1, 2), Rat(3, 2), 1>> }

\* a merge that stores its result into self as well
MergeCallInPlace(h, a, b) ==
    LET r == merge(h[a], h[b]) IN Append([h EXCEPT ![a] = r], r)

\* the heap after h[a].merge(h[b]): the returned instance is a fresh one
MergeCall(h, a, b) == Append(h, merge(h[a], h[b]))

HeapInit ==
    /\ arith = "float"
    /\ heap = <<>> /\ origin = <<>>
    /\ RevIdle /\ EncIdle /\ PpmIdle /\ KIdle

New(args) ==
    /\ Len(heap) < MaxHeap
    /\ heap' = Append(heap, TruthValue(args[1], args[2], args[3]))
    /\ origin' = Append(origin, [op |-> "new", a |-> 0, b |-> 0])
    /\ HeapFrame

Merge(a, b) ==
    /\ Len(heap) < MaxHeap
    /\ heap' = MergeCall(heap, a, b)
    /\ origin' = Append(origin, [op |-> "merge", a |-> a, b |-> b])
    /\ HeapFrame

HeapNext ==
    \/ \E args \in CtorArgs : New(args)
    \/ \E a \in DOMAIN heap, b \in DOMAIN heap : Merge(a, b)

SpecHeap == HeapInit /\ [][HeapNext]_vars

\* C5: no TruthValue whose strength or confidence is outside [0,1] ever
\* exists: the constructor rejects it.
NoOutOfRangeTruthValue ==
    \A k \in DOMAIN heap : InUnit(heap[k].strength) /\ InUnit(heap[k].confidence)

\* C6: a merge leaves the fields of every existing instance as they were,
\* and its result is an instance that did not exist before.
MergeNeverMutates ==
    [][(Len(origin') > Len(origin) /\ origin'[Len(origin')].op = "merge") =>
          /\ Len(heap') = Len(heap) + 1
          /\ \A k \in DOMAIN heap : heap'[k] = heap[k]
          /\ LET m == origin'[Len(origin')]
             IN  heap'[Len(heap')] = merge(heap[m.a], heap[m.b])]_vars

\* an instance merged with itself, the result differing from it
MergeNeverMutatesWitness ==
    \E k \in DOMAIN heap :
        /\ origin[k].op = "merge"
        /\ origin[k].a = origin[k].b
        /\ heap[k] # heap[origin[k].a]
        /\ InDomain(heap[origin[k].a])

(***************************************************************************)
(* Floats of the signal path.  A finite double is n / Scale in fixed       *)
(* point, or "huge": a finite double (1e308, say) whose product by the     *)
(* table size is past the largest double.  n is the sign of the values     *)
(* that are not in fixed point.                                            *)
(***************************************************************************)
Scale == 2 * Resolution

Fin(n)  == [kind |-> "fin", n |-> n]
Huge(s) == [kind |-> "huge", n |-> s]
Inf(s)  == [kind |-> "inf", n |-> s]
NaN     == [kind |-> "nan", n |-> 0]

IsFinite(v) == v.kind \in {"fin", "huge"}

\* abs(value)
FAbs(v) == IF v.kind = "nan" THEN v ELSE [v EXCEPT !.n = Abs(v.n)]

\* v * k for an int k >= 1: the product of a huge double overflows to inf
FTimesInt(v, k) ==
    CASE v.kind = "fin"  -> Fin(v.n * k)
      [] v.kind = "huge" -> Inf(v.n)
      [] OTHER           -> v

\* int(v): the error it raises, or "" when it converts
IntError(v) ==
    CASE v.kind = "inf" -> "OverflowError"
      [] v.kind = "nan" -> "ValueError"
      [] OTHER          -> ""

\* int(v) of a v >= 0 in fixed point
FloorInt(v) == v.n \div Scale

(***************************************************************************)
(* Constants (types.py 53-56).                                             *)
(***************************************************************************)
FUNDAMENTAL_PRIMES == <<2, 3, 5, 7, 11, 13, 17, 19, 23, 29, 31, 37, 41, 43, 47>>
GOLDEN_RATIO == (1618034 * Scale) \div 1000000
PI == (314159 * Scale) \div 100000

RECURSIVE SortedSet(_)
\* sorted(set(...)) of a set of ints
SortedSet(S) ==
    IF S = {} THEN <<>>
    ELSE LET m == CHOOSE x \in S : \A y \in S : x <= y
         IN  <<m>> \o SortedSet(S \ {m})

Range(q) == {q[k] : k \in DOMAIN q}

(***************************************************************************)
(* prime_encode (types.py 84-97), one action per statement group.          *)
(***************************************************************************)
Return(v) == [outcome |-> "return", val |-> v, err |-> ""]
Raise(e)  == [outcome |-> "raise", val |-> <<>>, err |-> e]

Signals ==
    {Fin(n) : n \in (-MaxSignal)..MaxSignal}
    \cup {Huge(1), Huge(-1), Inf(1), Inf(-1), NaN}

EncInit ==
    /\ arith = "float"
    /\ value \in Signals
    /\ num_primes \in 0..MaxK
    /\ i = 0 /\ abs_val = NoFloat /\ idx = 0 /\ primes = <<>>
    /\ epc = "start" /\ eres = NoResult
    /\ HeapIdle /\ RevIdle /\ PpmIdle /\ KIdle

\* primes = []; abs_val = abs(value)
EncStart ==
    /\ epc = "start"
    /\ primes' = <<>>
    /\ abs_val' = FAbs(value)
    /\ i' = 0
    /\ epc' = "loop"
    /\ UNCHANGED <<value, num_primes, idx, eres>>
    /\ EncFrame

\* one iteration of "for i in range(num_primes)" with i inside the table
EncSelect ==
    /\ epc = "loop" /\ i < num_primes /\ i < Len(FUNDAMENTAL_PRIMES)
    /\ LET t == FTimesInt(abs_val, Len(FUNDAMENTAL_PRIMES))
       IN  IF IntError(t) # ""
           THEN /\ eres' = Raise(IntError(t))
                /\ epc' = "done"
                /\ UNCHANGED <<i, abs_val, idx, primes>>
           ELSE /\ idx' = FloorInt(t) % Len(FUNDAMENTAL_PRIMES)
                /\ primes' = Append(primes, FUNDAMENTAL_PRIMES[idx' + 1])
                /\ abs_val' = Fin(((abs_val.n * GOLDEN_RATIO) \div Scale) % Scale)
                /\ i' = i + 1
                /\ UNCHANGED <<epc, eres>>
    /\ UNCHANGED <<value, num_primes>>
    /\ EncFrame

\* an iteration with i past the table: nothing is selected
EncSkip ==
    /\ epc = "loop" /\ i < num_primes /\ i >= Len(FUNDAMENTAL_PRIMES)
    /\ i' = i + 1
    /\ UNCHANGED <<value, num_primes, abs_val, idx, primes, epc, eres>>
    /\ EncFrame

\* return sorted(set(primes))
EncReturn ==
    /\ epc = "loop" /\ i >= num_primes
    /\ eres' = Return(SortedSet(Range(primes)))
    /\ epc' = "done"
    /\ UNCHANGED <<value, num_primes, i, abs_val, idx, primes>>
    /\ EncFrame

EncNext == EncStart \/ EncSelect \/ EncSkip \/ EncReturn

SpecEncode == EncInit /\ [][EncNext]_vars

Min(x, y) == IF x <= y THEN x ELSE y

StrictlyAscending(q) == \A k \in 1..(Len(q) - 1) : q[k] < q[k + 1]

EncodedWell ==
    /\ eres.outcome = "return"
    /\ StrictlyAscending(eres.val)
    /\ Len(eres.val) <= Min(num_primes, Len(FUNDAMENTAL_PRIMES))
    /\ Range(eres.val) \subseteq Range(FUNDAMENTAL_PRIMES)

\* C1: for every finite value and every num_primes >= 0, prime_encode returns
\* a strictly ascending list of at most min(num_primes, 15) primes of the
\* table, and the index computed at each iteration is within 0..14.
PrimeEncodeReturnsSignature ==
    /\ idx \in 0..(Len(FUNDAMENTAL_PRIMES) - 1)
    /\ (epc = "done" /\ IsFinite(value)) => EncodedWell

\* what does hold: every list prime_encode returns is such a signature
PrimeEncodeReturnedSignature ==
    /\ idx \in 0..(Len(FUNDAMENTAL_PRIMES) - 1)
    /\ (epc = "done" /\ eres.outcome = "return") => EncodedWell

\* C7: prime_encode raises nothing for a finite value, and rejects NaN and
\* the infinities with InvalidSignalError, whatever num_primes is.
PrimeEncodeErrors ==
    epc = "done" =>
        /\ IsFinite(value) => eres.outcome = "return"
        /\ ~IsFinite(value) =>
               eres.outcome = "raise" /\ eres.err = "InvalidSignalError"

(***************************************************************************)
(* Python ints of compute_ppm_coherence.  An int is small (n is its value) *)
(* or big: past the largest double (10**400, say), n its sign.             *)
(***************************************************************************)
Small(n) == [big |-> FALSE, n |-> n]
Big(s)   == [big |-> TRUE, n |-> s]

Sign(n) == IF n < 0 THEN -1 ELSE IF n = 0 THEN 0 ELSE 1

\* x * y
IMul(x, y) ==
    IF x.big \/ y.big
    THEN (IF Sign(x.n) * Sign(y.n) = 0 THEN Small(0)
          ELSE Big(Sign(x.n) * Sign(y.n)))
    ELSE Small(x.n * y.n)

\* x + y, where a big operand outweighs a small one
IAdd(x, y) ==
    CASE x.big -> x
      [] y.big -> y
      [] OTHER -> Small(x.n + y.n)

RECURSIVE ISqrtIn(_, _, _)
\* the r in lo..hi with r * r <= n < (r + 1) * (r + 1), by bisection
ISqrtIn(n, lo, hi) ==
    IF lo = hi THEN lo
    ELSE LET mid == (lo + hi + 1) \div 2
         IN  IF mid * mid <= n THEN ISqrtIn(n, mid, hi)
             ELSE ISqrtIn(n, lo, mid - 1)

\* math.sqrt(n) of a small n >= 0, in fixed point
FSqrt(n) == ISqrtIn(n * Scale * Scale, 0, (n + 1) * Scale)

\* sin of an angle 0 <= r <= PI in fixed point (Bhaskara's rational form,
\* which is 0 at 0 and PI, 1 at PI / 2 and never leaves [0,1])
SinHalfTurn(r) ==
    LET t == r * (PI - r)
    IN  (16 * t * Scale) \div (5 * PI * PI - 4 * t)

\* math.sin(x) in fixed point, -1 <= sin <= 1
Sin(x) ==
    LET r == Abs(x) % (2 * PI)
        s == IF r <= PI THEN SinHalfTurn(r) ELSE -SinHalfTurn(r - PI)
    IN  IF x < 0 THEN -s ELSE s

Half == Scale \div 2

\* sqrt_product * PI / total, total a small int that is not 0
Angle(sqrt_product, t) ==
    LET q == (sqrt_product * PI) \div (Abs(t) * Scale)
    IN  IF t < 0 THEN -q ELSE q

\* the statements after the loop (types.py 75-81)
Coherence(prod, tot) ==
    IF ~tot.big /\ tot.n = 0 THEN Return(Half)
    ELSE IF prod.big THEN Raise("OverflowError")
    ELSE IF prod.n < 0 THEN Raise("ValueError")
    ELSE IF tot.big THEN Raise("OverflowError")
    ELSE Return(Half + (Half * Sin(Angle(FSqrt(prod.n), tot.n))) \div Scale)

PpmElements == {Small(-2), Small(0), Small(2), Small(3), Small(5), Small(7), Big(1)}

RECURSIVE SeqsUpTo(_, _)
SeqsUpTo(S, n) ==
    IF n = 0 THEN {<<>>}
    ELSE LET shorter == SeqsUpTo(S, n - 1)
         IN  shorter \cup {Append(q, x) : q \in shorter, x \in S}

PpmInit ==
    /\ arith = "float"
    /\ plist \in SeqsUpTo(PpmElements, MaxLen)
    /\ product = Small(1) /\ total = Small(0) /\ pj = 0
    /\ ppc = "start" /\ pres = NoResult
    /\ HeapIdle /\ RevIdle /\ EncIdle /\ KIdle

\* if not primes: return 0.5
PpmEmpty ==
    /\ ppc = "start" /\ plist = <<>>
    /\ pres' = Return(Half)
    /\ ppc' = "done"
    /\ UNCHANGED <<plist, product, total, pj>>
    /\ PpmFrame

\* product = 1; total = 0
PpmStart ==
    /\ ppc = "start" /\ plist # <<>>
    /\ product' = Small(1) /\ total' = Small(0) /\ pj' = 0
    /\ ppc' = "loop"
    /\ UNCHANGED <<plist, pres>>
    /\ PpmFrame

\* for p in primes: product *= p; total += p
PpmAccumulate ==
    /\ ppc = "loop" /\ pj < Len(plist)
    /\ product' = IMul(product, plist[pj + 1])
    /\ total' = IAdd(total, plist[pj + 1])
    /\ pj' = pj + 1
    /\ UNCHANGED <<plist, ppc, pres>>
    /\ PpmFrame

PpmFinish ==
    /\ ppc = "loop" /\ pj = Len(plist)
    /\ pres' = Coherence(product, total)
    /\ ppc' = "done"
    /\ UNCHANGED <<plist, product, total, pj>>
    /\ PpmFrame

PpmNext == PpmEmpty \/ PpmStart \/ PpmAccumulate \/ PpmFinish

SpecPpm == PpmInit /\ [][PpmNext]_vars

AllPositive(q) == \A k \in DOMAIN q : q[k].n > 0

\* C2: compute_ppm_coherence(P) is in [0,1] for every list P of positive
\* integers, and is exactly 0.5 when P is empty or the sum of P is 0.
PpmCoherenceInUnit ==
    ppc = "done" =>
        /\ AllPositive(plist) =>
               pres.outcome = "return" /\ pres.val \in 0..Scale
        /\ (plist = <<>> \/ total = Small(0)) =>
               pres.outcome = "return" /\ pres.val = Half

\* what does hold: every value returned for positive integers is in [0,1],
\* and the empty list and a zero sum give 0.5
PpmReturnedInUnit ==
    ppc = "done" =>
        /\ (AllPositive(plist) /\ pres.outcome = "return") => pres.val \in 0..Scale
        /\ (plist = <<>> \/ total = Small(0)) =>
               pres.outcome = "return" /\ pres.val = Half

(***************************************************************************)
(* Kernel lifecycle (UnifiedKernel, TimeCrystalKernel).  The kernels live  *)
(* in the compiled nanobrain._core, of which this repository holds the     *)
(* tests only; the state machine is the one of the specification:          *)
(* Created -> Active -> Shutdown, re-initialization rejected.              *)
(***************************************************************************)
Kernels == 1..NumKernels

\* initialize() that lets a kernel that was shut down start again
initializeReentrant(st) ==
    IF st \in {"Created", "Shutdown"} THEN "Active" ELSE st

\* the state after initialize()
initialize(st) == IF st = "Created" THEN "Active" ELSE st

\* the state after shutdown()
shutdown(st) == IF st = "Active" THEN "Shutdown" ELSE st

is_active(k) == kstate[k] = "Active"

Call(op, res) == [op |-> op, res |-> res]

KInit ==
    /\ arith = "float"
    /\ kstate = [k \in Kernels |-> "Created"]
    /\ katoms = [k \in Kernels |-> 0]
    /\ kout = [k \in Kernels |-> Call("new", "ok")]
    /\ HeapIdle /\ RevIdle /\ EncIdle /\ PpmIdle

Initialize(k) ==
    /\ kstate' = [kstate EXCEPT ![k] = initialize(kstate[k])]
    /\ kout' = [kout EXCEPT ![k] =
                   Call("initialize",
                        IF kstate[k] = "Shutdown" /\ kstate'[k] = "Shutdown"
                        THEN "AlreadyShutdownError" ELSE "ok")]
    /\ UNCHANGED katoms
    /\ KFrame

Shutdown(k) ==
    /\ kstate' = [kstate EXCEPT ![k] = shutdown(kstate[k])]
    /\ kout' = [kout EXCEPT ![k] =
                   Call("shutdown",
                        CASE kstate[k] = "Active"   -> "ok"
                          [] kstate[k] = "Shutdown" -> "AlreadyShutdownError"
                          [] OTHER                  -> "NotActiveError")]
    /\ UNCHANGED katoms
    /\ KFrame

\* create_atom on the kernel: refused unless the kernel is Active
CreateAtom(k) ==
    /\ katoms[k] < MaxAtoms
    /\ IF is_active(k)
       THEN /\ katoms' = [katoms EXCEPT ![k] = @ + 1]
            /\ kout' = [kout EXCEPT ![k] = Call("create_atom", "ok")]
       ELSE /\ kout' = [kout EXCEPT ![k] = Call("create_atom", "NotActiveError")]
            /\ UNCHANGED katoms
    /\ UNCHANGED kstate
    /\ KFrame

KNext ==
    \/ \E k \in Kernels : Initialize(k)
    \/ \E k \in Kernels : Shutdown(k)
    \/ \E k \in Kernels : CreateAtom(k)

SpecKernel == KInit /\ [][KNext]_vars

\* C8: a kernel is inactive until initialize(), active after it, inactive
\* after shutdown(); Shutdown is terminal and the only changes of state are
\* Created -> Active and Active -> Shutdown.
KernelLifecycle ==
    [][\A k \in Kernels :
          /\ kstate[k] = "Created" => ~is_active(k)
          /\ kstate[k] # kstate'[k] =>
                 <<kstate[k], kstate'[k]>> \in
                     {<<"Created", "Active">>, <<"Active", "Shutdown">>}
          /\ kstate[k] = "Shutdown" => kstate'[k] = "Shutdown" /\ ~is_active(k)'
          /\ (kout'[k] # kout[k] /\ kout'[k] = Call("initialize", "ok")) => is_active(k)'
          /\ (kout'[k] # kout[k] /\ kout'[k].op = "shutdown") => ~is_active(k)']_vars

\* a kernel that went through its whole life and was then asked to start again
KernelLifecycleWitness ==
    \E k \in Kernels :
        /\ kstate[k] = "Shutdown"
        /\ katoms[k] > 0
        /\ kout[k] = Call("initialize", "AlreadyShutdownError")
        /\ ~is_active(k)

(***************************************************************************)
(* Properties of revision.                                                 *)
(***************************************************************************)
RevStage == CASE rpc = "ab" -> 0 [] rpc = "ba" -> 1 [] rpc = "bc" -> 2
              [] rpc = "left" -> 3 [] rpc = "right" -> 4 [] rpc = "done" -> 5
              [] OTHER -> 0

\* the merged values computed so far, each with its two operands
RevMerges ==
    (IF RevStage >= 1 THEN {<<ab, tva, tvb>>} ELSE {})
    \cup (IF RevStage >= 2 THEN {<<ba, tvb, tva>>} ELSE {})
    \cup (IF RevStage >= 3 THEN {<<bc, tvb, tvc>>} ELSE {})
    \cup (IF RevStage >= 4 THEN {<<ab_c, ab, tvc>>} ELSE {})
    \cup (IF RevStage >= 5 THEN {<<a_bc, tva, bc>>} ELSE {})

\* C3: merging in-domain truth values gives an in-domain truth value
\* (strength and confidence in [0,1], count >= 0), also when an operand is
\* itself the result of a merge of in-domain values.
MergePreservesDomain ==
    \A m \in RevMerges :
        (InDomain(m[2]) /\ InDomain(m[3])) => InDomain(m[1])

\* C4: the result of a.merge(b) has confidence c = ca + cb - ca*cb and count
\* a.count + b.count; its strength is 1/2 when c = 0, and when c > 0 it
\* satisfies strength * c = sa*ca + sb*cb - sa*ca*cb*sb.
MergeFormula ==
    \A m \in RevMerges :
        LET r == m[1]  x == m[2]  y == m[3]
            c == RSub(RAdd(x.confidence, y.confidence),
                      RMul(x.confidence, y.confidence))
            xw == RMul(x.strength, x.confidence)
            yw == RMul(y.strength, y.confidence)
        IN  /\ r.confidence = c
            /\ r.count = x.count + y.count
            /\ (c = RZero => r.strength = RHalf)
            /\ (RLt(RZero, c) =>
                   RMul(r.strength, c) = RSub(RAdd(xw, yw), RMul(xw, yw)))

MergeFormulaWitness ==
    /\ rpc = "done"
    /\ ab.confidence = RZero /\ ab.strength = RHalf /\ tva.strength # RHalf
    /\ RLt(RZero, bc.confidence) /\ RLt(bc.confidence, ROne)
    /\ RLt(RZero, bc.strength) /\ RLt(bc.strength, ROne)
    /\ bc.count = 2

\* C9: a.merge(b) and b.merge(a) agree in strength, confidence and count.
MergeSymmetric ==
    RevStage >= 2 =>
        /\ ab.strength = ba.strength
        /\ ab.confidence = ba.confidence
        /\ ab.count = ba.count

MergeSymmetricWitness ==
    /\ RevStage >= 2
    /\ tva.strength # tvb.strength
    /\ tva.confidence # tvb.confidence
    /\ RLt(RZero, tva.confidence) /\ RLt(RZero, tvb.confidence)
    /\ RLt(RZero, tva.strength) /\ RLt(RZero, tvb.strength)
    /\ tva.count # tvb.count
    /\ ab.strength \notin Grid

\* C10: (a.merge(b)).merge(c) and a.merge(b.merge(c)) agree in strength,
\* confidence and count, and the confidence accumulated along a, a+b, a+b+c
\* never decreases and never exceeds 1.
MergeAssociative ==
    /\ rpc = "done" =>
          /\ ab_c.strength = a_bc.strength
          /\ ab_c.confidence = a_bc.confidence
          /\ ab_c.count = a_bc.count
    /\ RevStage >= 1 => RLe(tva.confidence, ab.confidence) /\ RLe(ab.confidence, ROne)
    /\ RevStage >= 4 => RLe(ab.confidence, ab_c.confidence) /\ RLe(ab_c.confidence, ROne)

\* the first two pieces of evidence carry no confidence, so the default
\* strength 1/2 is an intermediate value; the third one decides
MergeAssociativeWitness ==
    /\ rpc = "done"
    /\ tva.confidence = RZero /\ tvb.confidence = RZero
    /\ tva.strength = ROne /\ tvb.strength = ROne
    /\ ab.strength = RHalf
    /\ RLt(RZero, tvc.confidence) /\ tvc.strength = RZero
    /\ ab_c.strength = RZero

\* all three pieces of evidence carry some confidence and disagree
MergeAssociativeMixed ==
    /\ rpc = "done"
    /\ RLt(RZero, tva.confidence) /\ RLt(tva.confidence, ROne)
    /\ RLt(RZero, tvb.confidence) /\ RLt(tvb.confidence, ROne)
    /\ RLt(RZero, tvc.confidence) /\ RLt(tvc.confidence, ROne)
    /\ tva.strength = ROne /\ tvb.strength = RHalf /\ tvc.strength = RZero


=============================================================================
